---- MODULE Spec2Model ----
(***************************************************************************)
(* Model of the agent execution lifecycle of ds-agentic-workflows:         *)
(*   - AgentExecutor (src/agent_core.py): initialize / run_turn /          *)
(*     get_conversation_items_for_next_turn / cleanup / async-with scope   *)
(*   - the interactive shell chat() (src/chat.py): tool filter, tool       *)
(*     provider scope and the turn loop                                    *)
(*                                                                         *)
(* Python's None is the empty tuple and a present value v is <<v>>, so     *)
(* that an optional field always holds a tuple.  Text is a sequence of     *)
(* one-character strings, so that str.strip() can be computed.             *)
(*                                                                         *)
(* The executor is driven by one caller (spec section 5: a single logical  *)
(* thread of control per executor); pc is that caller's position inside    *)
(* the method it is executing, named by the source line it is about to     *)
(* run; the await points of the code are the points where a method is      *)
(* split into steps.                                                       *)
(***************************************************************************)
EXTENDS Integers, Sequences, FiniteSets, TLC

None == <<>>
Some(v) == <<v>>
TheValue(o) == o[1]

Range(s) == {s[i] : i \in DOMAIN s}
BoundedSeq(S, n) == UNION {[1..k -> S] : k \in 0..n}

\* ------------------------------------------------------------------ bounds
\* tool-provider handles one executor may construct (MCPServerStdio(...) calls)
MaxStarts == 2
\* reasoning passes (Runner.run calls) one executor or one chat session makes
MaxTurns == 2
\* length of the base tool list of the chat shell's agent
MaxTools == 3
\* tables the chat shell is configured with
MaxTables == 2
\* model responses (result.raw_responses) of one reasoning pass
MaxResponses == 3
\* step items (result.new_items) of one reasoning pass
MaxItems == 4

\* ------------------------------------------------------------- the inputs
\* user messages
Hello == <<"h", "i">>
Again == <<"a", "g">>
Msgs == {Hello, Again}

UserItem(m) == [role |-> "user", content |-> m]

\* ---------------------------------------------------------- agent_core.py
EXPOSED_TOOLS ==
  <<"read_table_head", "query_table", "get_top_site_issues", "analyze_issue_scope">>

\* the exposed_tools argument a caller may construct the executor with
ToolsArgs == {None, Some(<<>>), Some(<<"read_table_head">>)}

\* self.exposed_tools = exposed_tools or EXPOSED_TOOLS: None and the empty list
\* are both falsy
DefaultedTools(arg) ==
  IF arg = None \/ TheValue(arg) = <<>> THEN EXPOSED_TOOLS ELSE TheValue(arg)

\* the three messages of the one exception class AgentExecutorError
MsgInitFailed == "Failed to initialize agent"
MsgNotInitialized == "Agent not initialized. Call initialize() first."
MsgTurnFailed == "Agent execution failed"

AgentExecutorError(msg, cause) ==
  Some([cls |-> "AgentExecutorError", msg |-> msg, cause |-> cause])

\* ----------------------------------------------- run_turn's pure pieces
\* lines 194-198: the input handed to the reasoning delegate.  A payload is
\* either the bare message (kind "str") or a list of items (kind "list").
BuildInput(user_message, conversation_items) ==
  IF conversation_items = None
    THEN [kind |-> "str", text |-> user_message, items |-> <<>>]
    ELSE [kind |-> "list", text |-> <<>>,
          items |-> Append(TheValue(conversation_items), UserItem(user_message))]

\* mutant: the payload is the caller's own list (no copy), so the append lands
\* in the caller's list
CallerListAliased(user_message, conversation_items) ==
  Some(Append(TheValue(conversation_items), UserItem(user_message)))

\* lines 197-198: list(conversation_items) is a new list, so the append does
\* not reach the list object the caller passed
CallerListAfter(user_message, conversation_items) == conversation_items

RECURSIVE LStrip(_)
LStrip(s) == IF s # <<>> /\ Head(s) = " " THEN LStrip(Tail(s)) ELSE s

RECURSIVE RStrip(_)
RStrip(s) ==
  IF s # <<>> /\ s[Len(s)] = " " THEN RStrip(SubSeq(s, 1, Len(s) - 1)) ELSE s

\* line 209: (result.final_output or "").strip()
FinalText(final_output) ==
  IF final_output = None THEN <<>> ELSE RStrip(LStrip(TheValue(final_output)))

\* lines 212-217: the names of the step items that carry a (truthy) tool name
RECURSIVE ToolNamesOf(_)
ToolNamesOf(new_items) ==
  IF new_items = <<>> THEN <<>>
  ELSE LET raw == Head(new_items).raw_item
           name == IF raw = None THEN None ELSE TheValue(raw).name
       IN (IF name # None /\ TheValue(name) # "" THEN <<TheValue(name)>> ELSE <<>>)
            \o ToolNamesOf(Tail(new_items))

\* mutant: the names are collected, their occurrences are not counted
ToolsUsedAsSet(new_items) ==
  [n \in Range(ToolNamesOf(new_items)) |-> 1]

\* line 219: dict(Counter(tools)) if tools else {}
ToolsUsed(new_items) ==
  LET tools == ToolNamesOf(new_items)
  IN [n \in Range(tools) |-> Cardinality({i \in DOMAIN tools : tools[i] = n})]

\* getattr(resp.usage, f, 0) or 0
UsageField(usage, f) == IF usage[f] = None THEN 0 ELSE TheValue(usage[f])

\* lines 222-231
RECURSIVE SumUsage(_, _)
SumUsage(raw_responses, acc) ==
  IF raw_responses = <<>> THEN acc
  ELSE LET resp == Head(raw_responses)
       IN SumUsage(Tail(raw_responses),
            IF resp.usage # None
              THEN LET u == TheValue(resp.usage)
                   IN [input_tokens |-> acc.input_tokens + UsageField(u, "input_tokens"),
                       output_tokens |-> acc.output_tokens + UsageField(u, "output_tokens"),
                       total_tokens |-> acc.total_tokens + UsageField(u, "total_tokens")]
              ELSE acc)

\* mutant: only the first response's usage is counted
TokenUsageOfFirst(raw_responses) ==
  SumUsage(IF raw_responses = <<>> THEN <<>> ELSE <<Head(raw_responses)>>,
           [input_tokens |-> 0, output_tokens |-> 0, total_tokens |-> 0])

TokenUsage(raw_responses) ==
  SumUsage(raw_responses, [input_tokens |-> 0, output_tokens |-> 0, total_tokens |-> 0])

\* lines 209-233: the tuple run_turn returns (the elapsed time is left out)
TurnResult(result) ==
  [response_text |-> FinalText(result.final_output),
   tool_usage |-> ToolsUsed(result.new_items),
   token_usage |-> TokenUsage(result.raw_responses)]

\* -------------------------------------------- the reasoning delegate
\* A step item of a run: a tool call carries raw_item.name, a message does not.
ToolCall(n) == [raw_item |-> Some([name |-> Some(n)]), role |-> "tool", content |-> <<n>>]
Message(t) == [raw_item |-> Some([name |-> None]), role |-> "assistant", content |-> t]
Usage(i, o, t) == Some([input_tokens |-> Some(i), output_tokens |-> Some(o), total_tokens |-> Some(t)])

\* What one reasoning pass over `input` may return: a run without output, and a
\* run that called a tool and answered.
DelegateResults(input) ==
  { [input |-> input, final_output |-> None, new_items |-> <<>>,
     raw_responses |-> <<[usage |-> None]>>],
    [input |-> input, final_output |-> Some(<<" ", "o", "k", " ">>),
     new_items |-> <<ToolCall("read_table_head"), Message(<<"o", "k">>)>>,
     raw_responses |-> <<[usage |-> Usage(10, 5, 15)], [usage |-> None]>>] }

\* Any reasoning pass, for the extraction of lines 209-231: step items with a
\* tool name, with an empty name, with no name, and with no raw item; usage
\* records that are absent, or present with each field absent or present.
StepItems ==
  {ToolCall("X"), ToolCall("Y"), ToolCall(""), Message(<<"o", "k">>),
   [raw_item |-> None, role |-> "assistant", content |-> <<>>]}

UsageRecords ==
  {None, Usage(10, 5, 15), Usage(3, 0, 3)}
    \cup {Some([input_tokens |-> i, output_tokens |-> o, total_tokens |-> t]) :
            i \in {None, Some(3)}, o \in {None, Some(2)}, t \in {None, Some(5)}}

AnyDelegateResults(input) ==
  { [input |-> input, final_output |-> None, new_items |-> items,
     raw_responses |-> <<[usage |-> None]>>] :
       items \in BoundedSeq(StepItems, MaxItems) }
  \cup
  { [input |-> input, final_output |-> None, new_items |-> <<>>,
     raw_responses |-> [i \in DOMAIN usages |-> [usage |-> usages[i]]]] :
       usages \in BoundedSeq(UsageRecords, MaxResponses) }

\* RunResult.to_input_list(): the run's input as items, then the run's new items
InputItems(input) ==
  IF input.kind = "str" THEN <<UserItem(input.text)>> ELSE input.items

to_input_list(result) ==
  InputItems(result.input)
    \o [i \in DOMAIN result.new_items |->
          [role |-> result.new_items[i].role, content |-> result.new_items[i].content]]

\* ============================================================ the state
VARIABLES
  tools_arg,        \* the exposed_tools argument the executor was constructed with
  exposed_tools,    \* self.exposed_tools
  mcp_server,       \* self.mcp_server: None or Some(handle id)
  agent_instance,   \* self.agent_instance: None or Some([server |-> handle id])
  last_result,      \* self._last_result: None or Some(run result)
  handles,          \* the MCPServerStdio objects constructed so far: handle id
                    \* |-> the allowed_tool_names of its tool filter
  running,          \* the handle ids whose subprocess is running
  pc,               \* the caller's position: "idle", or "<method>:<line>"
  frame,            \* run_turn's arguments and locals while it executes
  ret,              \* how the last completed call ended: method, line, exception
  turn_result,      \* the tuple the last run_turn returned (None if it raised)
  exported,         \* what the last get_conversation_items_for_next_turn returned
  caller_items,     \* the list object the caller holds for the next turn, or None
  delegate_log,     \* one entry per Runner.run call: "pending", "returned",
                    \* "raised" or "abandoned"
  scope,            \* the caller's async-with block over the executor
  exit_kind,        \* how the body of that block was left
  exit_cleanups,    \* cleanup() calls started by __aexit__
  exit_cleanups_done \* cleanup() calls of __aexit__ that have returned

execVars ==
  <<tools_arg, exposed_tools, mcp_server, agent_instance, last_result, handles,
    running, pc, frame, ret, turn_result, exported, caller_items, delegate_log,
    scope, exit_kind, exit_cleanups, exit_cleanups_done>>

VARIABLES
  chat_pc,            \* chat()'s position: "chat:<line>", or "done"
  allow_query_table,  \* chat()'s argument (--allow-query-table)
  base_tools,         \* agent_oop.allowed_tool_names()
  table_aliases,      \* the query_aliases of each table summary, in order
  allowed_tools,      \* chat()'s local allowed_tools, None before line 95
  chat_server,        \* the shell's tool provider: "unstarted", "running", "stopped"
  chat_filter,        \* the allowed_tool_names that provider was started with
  conversation_items, \* chat()'s local conversation_items
  chat_input,         \* the input_payload of the turn under way
  chat_log,           \* one entry per Runner.run call of the shell
  chat_exit           \* how chat() ended: "running", "return 0", "raise"

chatVars ==
  <<chat_pc, allow_query_table, base_tools, table_aliases, allowed_tools,
    chat_server, chat_filter, conversation_items, chat_input, chat_log, chat_exit>>

\* a second task that calls initialize() on the same executor
VARIABLES
  pc2,                \* the second task's position, as pc
  ret2                \* how the second task's last call ended, as ret

overlapVars == <<pc2, ret2>>

vars == <<execVars, chatVars, overlapVars>>

NoFrame ==
  [user_message |-> <<>>, conversation_items |-> None, supplied |-> FALSE,
   input_payload |-> None]

Returned(op, line) == [op |-> op, line |-> line, exc |-> None]
Raised(op, line, msg, cause) ==
  [op |-> op, line |-> line, exc |-> AgentExecutorError(msg, cause)]

\* lines 82-119: the constructor
ExecInit ==
  /\ tools_arg \in ToolsArgs
  /\ exposed_tools = DefaultedTools(tools_arg)
  /\ mcp_server = None
  /\ agent_instance = None
  /\ last_result = None
  /\ handles = <<>>
  /\ running = {}
  /\ pc = "idle"
  /\ frame = NoFrame
  /\ ret = Returned("__init__", 119)
  /\ turn_result = None
  /\ exported = None
  /\ caller_items \in {None, Some(<<>>)}
  /\ delegate_log = <<>>
  /\ scope = "outside"
  /\ exit_kind = "none"
  /\ exit_cleanups = 0
  /\ exit_cleanups_done = 0

\* -------------------------------------------------- the tool provider
\* MCPServerStdio is not part of this repository; its start and stop are the
\* ToolServerHandle contract of the spec (section 4.1).
\* __aenter__: the handshake completes, or start fails (the subprocess exits
\* early, or the handshake times out); a failed start leaves no subprocess.
StartOutcomes == {"ok", "ToolProviderStartError", "ToolProviderTimeoutError"}

\* __aexit__: stop may fail, but always releases the running subprocess
StopOutcomes == {"ok", "ShutdownError"}
RunningAfterStop(h) == running \ {h}
RunningAfterFailedStart(h) == running \ {h}

\* how the async-with block of the caller moves when a call returns or raises
ScopeAfter(op, raised) ==
  IF scope = "entering" /\ op = "initialize"
    THEN (IF raised THEN "failed" ELSE "body")
    ELSE IF scope = "exiting" /\ op = "cleanup" THEN "left" ELSE scope

ExitDoneAfter(op) ==
  IF scope = "exiting" /\ op = "cleanup"
    THEN exit_cleanups_done + 1 ELSE exit_cleanups_done

\* ------------------------------------------------------------ initialize
\* the caller calls initialize()
CallInitialize ==
  /\ pc = "idle"
  /\ mcp_server # None \/ Len(handles) < MaxStarts
  /\ pc' = "initialize:129"
  /\ UNCHANGED <<tools_arg, exposed_tools, mcp_server, agent_instance, last_result,
                 handles, running, frame, ret, turn_result, exported, caller_items,
                 delegate_log, scope, exit_kind, exit_cleanups, exit_cleanups_done>>
  /\ UNCHANGED chatVars
  /\ UNCHANGED overlapVars

\* mutant: the early return of line 129 is missing
NeverAlreadyInitialized == FALSE

\* mutant: the guard tests the field that is assigned after the handshake
AlreadyInitializedByAgent == agent_instance # None

\* line 129
AlreadyInitialized == mcp_server # None

\* lines 129-159, up to the suspension in the handshake: the early return, or
\* the agent configuration is resolved (which may raise), the handle is
\* constructed with the tool filter and assigned, and its start is begun
Initialize129 ==
  /\ pc = "initialize:129"
  /\ IF AlreadyInitialized
       THEN /\ pc' = "idle"
            /\ ret' = Returned("initialize", 130)
            /\ scope' = ScopeAfter("initialize", FALSE)
            /\ UNCHANGED <<mcp_server, handles, running>>
       ELSE \/ /\ pc' = "idle"
               /\ ret' = Raised("initialize", 165, MsgInitFailed, "ConfigError")
               /\ scope' = ScopeAfter("initialize", TRUE)
               /\ UNCHANGED <<mcp_server, handles, running>>
            \/ /\ pc' = "initialize:159"
               /\ handles' = Append(handles, exposed_tools)
               /\ mcp_server' = Some(Len(handles) + 1)
               /\ running' = running \cup {Len(handles) + 1}
               /\ UNCHANGED <<ret, scope>>
  /\ UNCHANGED <<tools_arg, exposed_tools, agent_instance, last_result, frame,
                 turn_result, exported, caller_items, delegate_log, exit_kind,
                 exit_cleanups, exit_cleanups_done>>
  /\ UNCHANGED chatVars
  /\ UNCHANGED overlapVars

\* lines 159-165: the handshake ends; on success the agent is built and bound
\* to the handle (line 162, which may raise); every exception is wrapped
Initialize159 ==
  /\ pc = "initialize:159"
  /\ pc' = "idle"
  /\ \E start \in StartOutcomes :
       IF start # "ok"
         THEN /\ running' = RunningAfterFailedStart(TheValue(mcp_server))
              /\ ret' = Raised("initialize", 165, MsgInitFailed, start)
              /\ scope' = ScopeAfter("initialize", TRUE)
              /\ UNCHANGED agent_instance
         ELSE \/ /\ agent_instance' = Some([server |-> TheValue(mcp_server)])
                 /\ ret' = Returned("initialize", 162)
                 /\ scope' = ScopeAfter("initialize", FALSE)
                 /\ UNCHANGED running
              \/ /\ ret' = Raised("initialize", 165, MsgInitFailed, "BuildError")
                 /\ scope' = ScopeAfter("initialize", TRUE)
                 /\ UNCHANGED <<agent_instance, running>>
  /\ UNCHANGED <<tools_arg, exposed_tools, mcp_server, last_result, handles, frame,
                 turn_result, exported, caller_items, delegate_log, exit_kind,
                 exit_cleanups, exit_cleanups_done>>
  /\ UNCHANGED chatVars
  /\ UNCHANGED overlapVars

\* initialize() as a second task runs it: the same code on the same fields
OverlapCallInitialize ==
  /\ pc2 = "idle"
  /\ mcp_server # None \/ Len(handles) < MaxStarts
  /\ pc2' = "initialize:129"
  /\ UNCHANGED ret2
  /\ UNCHANGED execVars
  /\ UNCHANGED chatVars

\* lines 129-159 in the second task; it runs while the first task is not
\* running, that is idle or suspended in the handshake of line 159
OverlapInitialize129 ==
  /\ pc2 = "initialize:129"
  /\ IF AlreadyInitialized
       THEN /\ pc2' = "idle"
            /\ ret2' = Returned("initialize", 130)
            /\ UNCHANGED <<mcp_server, handles, running>>
       ELSE \/ /\ pc2' = "idle"
               /\ ret2' = Raised("initialize", 165, MsgInitFailed, "ConfigError")
               /\ UNCHANGED <<mcp_server, handles, running>>
            \/ /\ pc2' = "initialize:159"
               /\ handles' = Append(handles, exposed_tools)
               /\ mcp_server' = Some(Len(handles) + 1)
               /\ running' = running \cup {Len(handles) + 1}
               /\ UNCHANGED ret2
  /\ UNCHANGED <<tools_arg, exposed_tools, agent_instance, last_result, pc, frame,
                 ret, turn_result, exported, caller_items, delegate_log, scope,
                 exit_kind, exit_cleanups, exit_cleanups_done>>
  /\ UNCHANGED chatVars

\* lines 159-165 in the second task
OverlapInitialize159 ==
  /\ pc2 = "initialize:159"
  /\ pc2' = "idle"
  /\ \E start \in StartOutcomes :
       IF start # "ok"
         THEN /\ running' = RunningAfterFailedStart(TheValue(mcp_server))
              /\ ret2' = Raised("initialize", 165, MsgInitFailed, start)
              /\ UNCHANGED agent_instance
         ELSE \/ /\ agent_instance' = Some([server |-> TheValue(mcp_server)])
                 /\ ret2' = Returned("initialize", 162)
                 /\ UNCHANGED running
              \/ /\ ret2' = Raised("initialize", 165, MsgInitFailed, "BuildError")
                 /\ UNCHANGED <<agent_instance, running>>
  /\ UNCHANGED <<tools_arg, exposed_tools, mcp_server, last_result, handles, pc,
                 frame, ret, turn_result, exported, caller_items, delegate_log,
                 scope, exit_kind, exit_cleanups, exit_cleanups_done>>
  /\ UNCHANGED chatVars

\* -------------------------------------------------------------- run_turn
\* the caller calls run_turn(m, None) or run_turn(m, <the list it holds>)
CallRunTurn ==
  /\ pc = "idle"
  /\ agent_instance # None => Len(delegate_log) < MaxTurns
  /\ \E m \in Msgs, supplied \in BOOLEAN :
       /\ supplied => caller_items # None
       /\ frame' = [user_message |-> m,
                    conversation_items |-> IF supplied THEN caller_items ELSE None,
                    supplied |-> supplied,
                    input_payload |-> None]
  /\ pc' = "run_turn:189"
  /\ UNCHANGED <<tools_arg, exposed_tools, mcp_server, agent_instance, last_result,
                 handles, running, ret, turn_result, exported, caller_items,
                 delegate_log, scope, exit_kind, exit_cleanups, exit_cleanups_done>>
  /\ UNCHANGED chatVars
  /\ UNCHANGED overlapVars

\* mutant: the guard tests the handle instead of the agent
NotInitializedByServer == mcp_server = None

\* line 189
NotInitialized == agent_instance = None

\* lines 189-202, up to the suspension in Runner.run: the guard (raised outside
\* the try, so not wrapped), then the input payload is built and handed over
RunTurn189 ==
  /\ pc = "run_turn:189"
  /\ IF NotInitialized
       THEN /\ pc' = "idle"
            /\ ret' = Raised("run_turn", 190, MsgNotInitialized, "none")
            /\ turn_result' = None
            /\ frame' = NoFrame
            /\ UNCHANGED <<caller_items, delegate_log>>
       ELSE /\ pc' = "run_turn:202"
            /\ frame' = [frame EXCEPT !.input_payload =
                           Some(BuildInput(frame.user_message, frame.conversation_items))]
            /\ caller_items' =
                 IF frame.supplied
                   THEN CallerListAfter(frame.user_message, caller_items)
                   ELSE caller_items
            /\ delegate_log' = Append(delegate_log, "pending")
            /\ UNCHANGED <<ret, turn_result>>
  /\ UNCHANGED <<tools_arg, exposed_tools, mcp_server, agent_instance, last_result,
                 handles, running, exported, scope, exit_kind, exit_cleanups,
                 exit_cleanups_done>>
  /\ UNCHANGED chatVars
  /\ UNCHANGED overlapVars

\* lines 202-233: Runner.run returns; the result is retained and the tuple built
TurnReturns(result) ==
  /\ pc = "run_turn:202"
  /\ last_result' = Some(result)
  /\ turn_result' = Some(TurnResult(result))
  /\ delegate_log' = [delegate_log EXCEPT ![Len(delegate_log)] = "returned"]
  /\ ret' = Returned("run_turn", 233)
  /\ pc' = "idle"
  /\ frame' = NoFrame
  /\ UNCHANGED <<tools_arg, exposed_tools, mcp_server, agent_instance, handles,
                 running, exported, caller_items, scope, exit_kind,
                 exit_cleanups, exit_cleanups_done>>
  /\ UNCHANGED chatVars
  /\ UNCHANGED overlapVars

RunTurnReturns ==
  /\ pc = "run_turn:202"
  /\ \E result \in DelegateResults(TheValue(frame.input_payload)) : TurnReturns(result)

\* the same step, for any step log and any usage records
RunTurnReturnsAny ==
  /\ pc = "run_turn:202"
  /\ \E result \in AnyDelegateResults(TheValue(frame.input_payload)) : TurnReturns(result)

\* mutant: the delegate's exception leaves run_turn as it is, unwrapped
TurnFailureUnwrapped(cause) ==
  [op |-> "run_turn", line |-> 202,
   exc |-> Some([cls |-> cause, msg |-> cause, cause |-> "none"])]

\* lines 235-236: an Exception inside the try is wrapped and raised
TurnFailure(cause) == Raised("run_turn", 236, MsgTurnFailed, cause)

\* mutant: a failed turn forgets the retained result
LastResultClearedOnFailure == None

\* lines 202-206: line 206 is not reached when Runner.run raises, so the
\* retained result stays what it was
LastResultAfterFailure == last_result

\* lines 202, 235-236: Runner.run raises; the exception is wrapped
RunTurnRaises ==
  /\ pc = "run_turn:202"
  /\ delegate_log' = [delegate_log EXCEPT ![Len(delegate_log)] = "raised"]
  /\ ret' = TurnFailure("DelegateError")
  /\ turn_result' = None
  /\ last_result' = LastResultAfterFailure
  /\ pc' = "idle"
  /\ frame' = NoFrame
  /\ UNCHANGED <<tools_arg, exposed_tools, mcp_server, agent_instance,
                 handles, running, exported, caller_items, scope,
                 exit_kind, exit_cleanups, exit_cleanups_done>>
  /\ UNCHANGED chatVars
  /\ UNCHANGED overlapVars

\* mutant: an abandoned turn makes the executor forget its handle
HandleDroppedByAbandonedTurn == None

\* lines 202, 235: asyncio.CancelledError and KeyboardInterrupt are not
\* Exceptions, so no handler of run_turn runs and no field is assigned
HandleAfterAbandonedTurn == mcp_server

\* line 202: the caller abandons the call while Runner.run is in flight (the
\* task is cancelled, or the user interrupts); the exception passes through
\* run_turn unwrapped
RunTurnAbandoned ==
  /\ pc = "run_turn:202"
  /\ delegate_log' = [delegate_log EXCEPT ![Len(delegate_log)] = "abandoned"]
  /\ ret' = [op |-> "run_turn", line |-> 202,
             exc |-> Some([cls |-> "CancelledError", msg |-> "", cause |-> "none"])]
  /\ turn_result' = None
  /\ mcp_server' = HandleAfterAbandonedTurn
  /\ pc' = "idle"
  /\ frame' = NoFrame
  /\ UNCHANGED <<tools_arg, exposed_tools, agent_instance, last_result,
                 handles, running, exported, caller_items, scope,
                 exit_kind, exit_cleanups, exit_cleanups_done>>
  /\ UNCHANGED chatVars
  /\ UNCHANGED overlapVars

\* ------------------------------ get_conversation_items_for_next_turn
\* lines 245-247
ConversationItemsForNextTurn ==
  IF last_result = None THEN None ELSE Some(to_input_list(TheValue(last_result)))

\* the caller asks for the next turn's state and keeps what it got
GetConversationItems ==
  /\ pc = "idle"
  /\ exported' = ConversationItemsForNextTurn
  /\ caller_items' = ConversationItemsForNextTurn
  /\ ret' = Returned("get_conversation_items_for_next_turn",
                     IF last_result = None THEN 246 ELSE 247)
  /\ UNCHANGED <<tools_arg, exposed_tools, mcp_server, agent_instance, last_result,
                 handles, running, pc, frame, turn_result, delegate_log, scope,
                 exit_kind, exit_cleanups, exit_cleanups_done>>
  /\ UNCHANGED chatVars
  /\ UNCHANGED overlapVars

\* --------------------------------------------------------------- cleanup
\* the caller calls cleanup()
CallCleanup ==
  /\ pc = "idle"
  /\ pc' = "cleanup:251"
  /\ UNCHANGED <<tools_arg, exposed_tools, mcp_server, agent_instance, last_result,
                 handles, running, frame, ret, turn_result, exported, caller_items,
                 delegate_log, scope, exit_kind, exit_cleanups, exit_cleanups_done>>
  /\ UNCHANGED chatVars
  /\ UNCHANGED overlapVars

\* line 251: nothing to do without a handle; otherwise the stop is begun
Cleanup251 ==
  /\ pc = "cleanup:251"
  /\ IF mcp_server = None
       THEN /\ pc' = "idle"
            /\ ret' = Returned("cleanup", 251)
            /\ scope' = ScopeAfter("cleanup", FALSE)
            /\ exit_cleanups_done' = ExitDoneAfter("cleanup")
       ELSE /\ pc' = "cleanup:253"
            /\ UNCHANGED <<ret, scope, exit_cleanups_done>>
  /\ UNCHANGED <<tools_arg, exposed_tools, mcp_server, agent_instance, last_result,
                 handles, running, frame, turn_result, exported, caller_items,
                 delegate_log, exit_kind, exit_cleanups>>
  /\ UNCHANGED chatVars
  /\ UNCHANGED overlapVars

\* mutant: no except clause around the stop
CleanupOutcomeUncaught(stop) ==
  [op |-> "cleanup", line |-> 253,
   exc |-> IF stop = "ok" THEN None
           ELSE Some([cls |-> stop, msg |-> stop, cause |-> "none"])]

\* lines 254-255: an Exception of the stop is printed as a warning, not raised
CleanupOutcome(stop) ==
  [op |-> "cleanup", line |-> IF stop = "ok" THEN 258 ELSE 255, exc |-> None]

\* mutant: cleanup() leaves the agent bound
AgentKeptByCleanup == agent_instance

\* line 257
AgentAfterCleanup == None

\* mutant: cleanup() leaves the retained result
LastResultKeptByCleanup == last_result

\* line 258
LastResultAfterCleanup == None

\* lines 253-258: the stop ends; the three fields are cleared either way
Cleanup253 ==
  /\ pc = "cleanup:253"
  /\ \E stop \in StopOutcomes :
       /\ running' = RunningAfterStop(TheValue(mcp_server))
       /\ ret' = CleanupOutcome(stop)
       /\ IF ret'.exc = None
            THEN /\ mcp_server' = None
                 /\ agent_instance' = AgentAfterCleanup
                 /\ last_result' = LastResultAfterCleanup
            ELSE UNCHANGED <<mcp_server, agent_instance, last_result>>
  /\ pc' = "idle"
  /\ scope' = ScopeAfter("cleanup", ret'.exc # None)
  /\ exit_cleanups_done' = ExitDoneAfter("cleanup")
  /\ UNCHANGED <<tools_arg, exposed_tools, handles, frame, turn_result, exported,
                 caller_items, delegate_log, exit_kind, exit_cleanups>>
  /\ UNCHANGED chatVars
  /\ UNCHANGED overlapVars

\* ------------------------------------------------- the async-with scope
\* lines 260-263: __aenter__ calls initialize(); the body is entered only if
\* it returns (an exception of __aenter__ leaves the block without __aexit__)
AEnter ==
  /\ pc = "idle"
  /\ scope = "outside"
  /\ mcp_server # None \/ Len(handles) < MaxStarts
  /\ scope' = "entering"
  /\ pc' = "initialize:129"
  /\ UNCHANGED <<tools_arg, exposed_tools, mcp_server, agent_instance, last_result,
                 handles, running, frame, ret, turn_result, exported, caller_items,
                 delegate_log, exit_kind, exit_cleanups, exit_cleanups_done>>
  /\ UNCHANGED chatVars
  /\ UNCHANGED overlapVars

\* mutant: __aexit__ returns without calling cleanup()
AExitWithoutCleanup(kind) ==
  /\ pc = "idle"
  /\ scope = "body"
  /\ exit_kind' = kind
  /\ scope' = "left"
  /\ UNCHANGED <<tools_arg, exposed_tools, mcp_server, agent_instance, last_result,
                 handles, running, pc, frame, ret, turn_result, exported,
                 caller_items, delegate_log, exit_cleanups, exit_cleanups_done>>
  /\ UNCHANGED chatVars
  /\ UNCHANGED overlapVars

\* lines 265-267: the body is left (it ended, returned early, or raised);
\* __aexit__ awaits cleanup() and returns None, so that a raised exception
\* goes on to the caller once cleanup() has returned
AExit(kind) ==
  /\ pc = "idle"
  /\ scope = "body"
  /\ exit_kind' = kind
  /\ scope' = "exiting"
  /\ exit_cleanups' = exit_cleanups + 1
  /\ pc' = "cleanup:251"
  /\ UNCHANGED <<tools_arg, exposed_tools, mcp_server, agent_instance, last_result,
                 handles, running, frame, ret, turn_result, exported, caller_items,
                 delegate_log, exit_cleanups_done>>
  /\ UNCHANGED chatVars
  /\ UNCHANGED overlapVars

ExitKinds == {"normal", "return", "raise"}

\* ================================================================ chat.py
ChatToolNames == {"read_table_head", "query_table", "query_audit"}
AliasLists == {<<>>, <<"query_audit">>}

\* mutant: only query_table is denied, the tables' query aliases are not
DisallowedWithoutAliases(table_summaries) == {"query_table"}

\* lines 97-99
Disallowed(table_summaries) ==
  {"query_table"} \cup UNION {Range(table_summaries[i]) : i \in DOMAIN table_summaries}

\* line 100: [tool for tool in allowed_tools if tool not in disallowed]
RECURSIVE Without(_, _)
Without(tools, disallowed) ==
  IF tools = <<>> THEN <<>>
  ELSE (IF Head(tools) \notin disallowed THEN <<Head(tools)>> ELSE <<>>)
         \o Without(Tail(tools), disallowed)

\* lines 95-100
ComputeAllowed(tools, table_summaries, allow) ==
  IF ~allow THEN Without(tools, Disallowed(table_summaries)) ELSE tools

\* lines 146-151
ChatBuildInput(user, items) ==
  IF items = None
    THEN [kind |-> "str", text |-> user, items |-> <<>>]
    ELSE [kind |-> "list", text |-> <<>>,
          items |-> Append(TheValue(items), UserItem(user))]

\* the provider after its stop: the subprocess is released
ChatServerAfterStop == "stopped"

\* mutant: the provider is stopped on the return paths only
ServerStoppedOnlyOnReturn(how) ==
  IF how = "return 0" THEN ChatServerAfterStop ELSE "running"

\* lines 118-184: the agent build and the whole loop are inside the
\* `async with MCPServerStdio(...)` block, so a return and an exception alike
\* leave through the provider's __aexit__
ServerAfterLeaving(how) == ChatServerAfterStop

\* chat() is called
ChatInit ==
  /\ chat_pc = "chat:95"
  /\ allow_query_table \in BOOLEAN
  /\ base_tools \in BoundedSeq(ChatToolNames, MaxTools)
  /\ table_aliases \in BoundedSeq(AliasLists, MaxTables)
  /\ allowed_tools = None
  /\ chat_server = "unstarted"
  /\ chat_filter = None
  /\ conversation_items = None
  /\ chat_input = None
  /\ chat_log = <<>>
  /\ chat_exit = "running"

\* lines 95-100: the allow-list is computed
ChatComputeAllowed ==
  /\ chat_pc = "chat:95"
  /\ allowed_tools' = Some(ComputeAllowed(base_tools, table_aliases, allow_query_table))
  /\ chat_pc' = "chat:118"
  /\ UNCHANGED <<allow_query_table, base_tools, table_aliases, chat_server,
                 chat_filter, conversation_items, chat_input, chat_log, chat_exit>>
  /\ UNCHANGED execVars
  /\ UNCHANGED overlapVars

\* lines 118-131: the provider is started with the allow-list and the agent is
\* built; a failed start, or a failed build (which leaves the with block, so
\* the provider is stopped), ends chat() with the exception
ChatStart ==
  /\ chat_pc = "chat:118"
  /\ chat_filter' = allowed_tools
  /\ \E start \in StartOutcomes :
       IF start # "ok"
         THEN chat_server' = "unstarted" /\ chat_exit' = "raise" /\ chat_pc' = "done"
         ELSE \/ chat_server' = "running" /\ chat_pc' = "chat:134" /\ UNCHANGED chat_exit
              \/ /\ chat_server' = ServerAfterLeaving("raise")
                 /\ chat_exit' = "raise"
                 /\ chat_pc' = "done"
  /\ UNCHANGED <<allow_query_table, base_tools, table_aliases, allowed_tools,
                 conversation_items, chat_input, chat_log>>
  /\ UNCHANGED execVars
  /\ UNCHANGED overlapVars

\* what the read step can give: end of input, an interrupt, an empty line, a
\* quit command, or a message
ReadOutcomes == {<<"EOFError">>, <<"KeyboardInterrupt">>, <<>>, <<"/exit">>} \cup Msgs

\* lines 134-154, up to the suspension in Runner.run
ChatRead ==
  /\ chat_pc = "chat:134"
  /\ \E user \in ReadOutcomes :
       IF user \in {<<"EOFError">>, <<"KeyboardInterrupt">>, <<"/exit">>}
         THEN /\ chat_server' = ServerAfterLeaving("return 0")
              /\ chat_exit' = "return 0"
              /\ chat_pc' = "done"
              /\ UNCHANGED <<chat_input, chat_log>>
         ELSE IF user = <<>>
           THEN UNCHANGED <<chat_server, chat_exit, chat_pc, chat_input, chat_log>>
           ELSE /\ Len(chat_log) < MaxTurns
                /\ chat_input' = Some(ChatBuildInput(user, conversation_items))
                /\ chat_log' = Append(chat_log, "pending")
                /\ chat_pc' = "chat:154"
                /\ UNCHANGED <<chat_server, chat_exit>>
  /\ UNCHANGED <<allow_query_table, base_tools, table_aliases, allowed_tools,
                 chat_filter, conversation_items>>
  /\ UNCHANGED execVars
  /\ UNCHANGED overlapVars

\* lines 154-184: Runner.run returns; the next turn's state is taken from it
ChatTurnReturns ==
  /\ chat_pc = "chat:154"
  /\ \E result \in DelegateResults(TheValue(chat_input)) :
       conversation_items' = Some(to_input_list(result))
  /\ chat_log' = [chat_log EXCEPT ![Len(chat_log)] = "returned"]
  /\ chat_input' = None
  /\ chat_pc' = "chat:134"
  /\ UNCHANGED <<allow_query_table, base_tools, table_aliases, allowed_tools,
                 chat_server, chat_filter, chat_exit>>
  /\ UNCHANGED execVars
  /\ UNCHANGED overlapVars

\* line 154: Runner.run raises; nothing in the loop catches it, so it leaves
\* the with block (the provider is stopped) and chat()
ChatTurnRaises ==
  /\ chat_pc = "chat:154"
  /\ chat_log' = [chat_log EXCEPT ![Len(chat_log)] = "raised"]
  /\ chat_server' = ServerAfterLeaving("raise")
  /\ chat_exit' = "raise"
  /\ chat_pc' = "done"
  /\ UNCHANGED <<allow_query_table, base_tools, table_aliases, allowed_tools,
                 chat_filter, conversation_items, chat_input>>
  /\ UNCHANGED execVars
  /\ UNCHANGED overlapVars

\* line 154: the user interrupts, or the task is cancelled, while Runner.run
\* is in flight; the try of lines 133-137 covers the read step only, so the
\* exception leaves the with block and chat()
ChatTurnAbandoned ==
  /\ chat_pc = "chat:154"
  /\ chat_log' = [chat_log EXCEPT ![Len(chat_log)] = "abandoned"]
  /\ chat_server' = ServerAfterLeaving("raise")
  /\ chat_exit' = "raise"
  /\ chat_pc' = "done"
  /\ UNCHANGED <<allow_query_table, base_tools, table_aliases, allowed_tools,
                 chat_filter, conversation_items, chat_input>>
  /\ UNCHANGED execVars
  /\ UNCHANGED overlapVars

\* ----------------------------------------------------- the specifications
\* no chat() is running beside the executor
ChatParked ==
  /\ chat_pc = "done"
  /\ allow_query_table = FALSE
  /\ base_tools = <<>>
  /\ table_aliases = <<>>
  /\ allowed_tools = None
  /\ chat_server = "unstarted"
  /\ chat_filter = None
  /\ conversation_items = None
  /\ chat_input = None
  /\ chat_log = <<>>
  /\ chat_exit = "running"

\* no second task has called the executor
NoOverlap ==
  /\ pc2 = "idle"
  /\ ret2 = Returned("__init__", 119)

Init ==
  /\ ExecInit
  /\ ChatParked
  /\ NoOverlap

Next ==
  \/ CallInitialize
  \/ Initialize129
  \/ Initialize159
  \/ CallRunTurn
  \/ RunTurn189
  \/ RunTurnReturns
  \/ RunTurnRaises
  \/ RunTurnAbandoned
  \/ GetConversationItems
  \/ CallCleanup
  \/ Cleanup251
  \/ Cleanup253
  \/ AEnter
  \/ \E kind \in ExitKinds : AExit(kind)

\* the executor under one caller
Spec == Init /\ [][Next]_vars

\* chat() constructs no AgentExecutor: the executor's state stays as constructed
ChatNext ==
  \/ ChatComputeAllowed
  \/ ChatStart
  \/ ChatRead
  \/ ChatTurnReturns
  \/ ChatTurnRaises
  \/ ChatTurnAbandoned

ChatSpecInit ==
  /\ ExecInit
  /\ tools_arg = None
  /\ caller_items = None
  /\ ChatInit
  /\ NoOverlap

\* one run of the interactive shell
ChatSpec == ChatSpecInit /\ [][ChatNext]_vars

\* run_turn() has been called on an executor that initialize() made Ready
ExtractInit ==
  /\ tools_arg = None
  /\ exposed_tools = DefaultedTools(tools_arg)
  /\ mcp_server = Some(1)
  /\ agent_instance = Some([server |-> 1])
  /\ last_result = None
  /\ handles = <<exposed_tools>>
  /\ running = {1}
  /\ pc = "run_turn:189"
  /\ caller_items \in {None, Some(<<>>)}
  /\ \E m \in Msgs, supplied \in BOOLEAN :
       /\ supplied => caller_items # None
       /\ frame = [user_message |-> m,
                   conversation_items |-> IF supplied THEN caller_items ELSE None,
                   supplied |-> supplied,
                   input_payload |-> None]
  /\ ret = Returned("initialize", 162)
  /\ turn_result = None
  /\ exported = None
  /\ delegate_log = <<>>
  /\ scope = "outside"
  /\ exit_kind = "none"
  /\ exit_cleanups = 0
  /\ exit_cleanups_done = 0
  /\ ChatParked
  /\ NoOverlap

ExtractNext ==
  \/ RunTurn189
  \/ RunTurnReturnsAny

\* one turn of a Ready executor, over every result the delegate may return
ExtractSpec == ExtractInit /\ [][ExtractNext]_vars

\* two tasks call initialize() on one executor; a task runs from one await to
\* the next, so the steps of the two interleave at the handshake of line 159
OverlapNext ==
  \/ CallInitialize
  \/ Initialize129
  \/ Initialize159
  \/ OverlapCallInitialize
  \/ OverlapInitialize129
  \/ OverlapInitialize159

OverlapSpec == Init /\ [][OverlapNext]_vars

\* ================================================================ claims

\* C1: cleanup(), called any number of times after any prior operations,
\* never raises to the caller, also when the tool provider's stop fails, and
\* once it has returned no subprocess of the executor is running.
C1_CleanupNeverRaisesAndStops ==
  (pc = "idle" /\ ret.op = "cleanup") => (ret.exc = None /\ running = {})

\* cleanup() has returned after the stop of a started provider failed
C1_Witness ==
  pc = "idle" /\ ret.op = "cleanup" /\ ret.line = 255 /\ Len(handles) >= 1

\* C2: when initialize() fails at any step, it returns its error with no
\* subprocess started by the call still running, the executor not Ready, and
\* the error being the initialization error wrapping the cause.
C2_FailedInitializeLeavesCleanState ==
  (pc = "idle" /\ ret.op = "initialize" /\ ret.exc # None) =>
     /\ running = {}
     /\ agent_instance = None
     /\ TheValue(ret.exc).msg = MsgInitFailed
     /\ TheValue(ret.exc).cause # "none"

\* C3: once the scope is entered, leaving it (normal exit, early return or a
\* raised failure) calls cleanup() exactly once, and the body's exception
\* reaches the caller only after that cleanup() has returned.
C3_ScopeExitCleansUpOnce ==
  /\ scope \in {"outside", "entering", "failed", "body"} => exit_cleanups = 0
  /\ scope = "exiting" => (exit_cleanups = 1 /\ exit_cleanups_done = 0)
  /\ scope = "left" => (exit_cleanups = 1 /\ exit_cleanups_done = 1)

\* the body raised and its exception has reached the caller
C3_Witness == scope = "left" /\ exit_kind = "raise" /\ pc = "idle"

\* C4: run_turn() on an executor that is not Ready fails with the
\* not-initialized error; the call starts no subprocess and does not invoke
\* the reasoning delegate.
C4_RunTurnNotReady ==
  [][(pc = "run_turn:189" /\ agent_instance = None) =>
       /\ pc' = "idle"
       /\ ret' = Raised("run_turn", 190, MsgNotInitialized, "none")
       /\ turn_result' = None
       /\ UNCHANGED <<handles, running, delegate_log, mcp_server, agent_instance>>]_vars

\* run_turn() was refused after an initialize() that failed while binding the
\* agent (the handle is held, its subprocess runs, and there is no agent)
C4_Witness ==
  /\ pc = "idle" /\ ret.op = "run_turn" /\ ret.line = 190
  /\ mcp_server # None /\ running # {}

\* C5: initialize() on a Ready executor is a no-op: no subprocess is started,
\* the agent configuration is not rebound, and the executor stays Ready.
C5_SecondInitializeIsNoop ==
  [][(pc = "initialize:129" /\ agent_instance # None) =>
       /\ pc' = "idle"
       /\ ret' = Returned("initialize", 130)
       /\ UNCHANGED <<handles, running, mcp_server, agent_instance>>]_vars

\* the second initialize() has returned: one handle was ever constructed
C5_Witness ==
  /\ pc = "idle" /\ ret = Returned("initialize", 130)
  /\ agent_instance # None /\ Len(handles) = 1 /\ running = {1}

\* C6: a run_turn() whose delegate call raises fails with the turn-execution
\* error wrapping the cause, returns no TurnResult, and leaves the executor
\* Ready with the handle and the bound agent unchanged.
C6_FailedTurnKeepsReady ==
  [][(pc = "run_turn:202" /\ pc' = "idle"
        /\ delegate_log'[Len(delegate_log')] = "raised") =>
       /\ ret' = Raised("run_turn", 236, MsgTurnFailed, "DelegateError")
       /\ turn_result' = None
       /\ agent_instance' # None
       /\ UNCHANGED <<mcp_server, agent_instance, handles, running>>]_vars

\* a run_turn() has succeeded right after one whose delegate call raised
C6_Witness ==
  /\ pc = "idle" /\ ret = Returned("run_turn", 233)
  /\ delegate_log = <<"raised", "returned">>

\* C7: what get_conversation_items_for_next_turn would return is None until a
\* run_turn() has returned; a run_turn() that returns makes it the state
\* derived from that turn (the turn's input followed by the turn's new items);
\* a run_turn() that raises leaves it as it was.
C7_ExportFollowsLastSuccessfulTurn ==
  /\ ConversationItemsForNextTurn = None
  /\ [][/\ (pc = "run_turn:202" /\ pc' = "idle" /\ ret'.exc = None) =>
             \E r \in DelegateResults(TheValue(frame.input_payload)) :
                /\ turn_result' = Some(TurnResult(r))
                /\ ConversationItemsForNextTurn' = Some(to_input_list(r))
        /\ (pc \in {"run_turn:189", "run_turn:202"} /\ pc' = "idle" /\ ret'.exc # None) =>
             ConversationItemsForNextTurn' = ConversationItemsForNextTurn
        /\ (ConversationItemsForNextTurn' # ConversationItemsForNextTurn) =>
             \/ pc = "run_turn:202" /\ ret'.exc = None
             \/ pc = "cleanup:253"]_vars

\* a turn has failed after a successful one, and the state of the successful
\* one is still what would be exported
C7_Witness ==
  /\ pc = "idle" /\ ret.op = "run_turn" /\ ret.line = 236
  /\ delegate_log = <<"returned", "raised">>
  /\ ConversationItemsForNextTurn # None

\* C8: the input handed to the delegate is the supplied sequence followed by
\* exactly one item {role: user, content: m}, or the bare message when no
\* sequence is supplied; the caller's sequence is as it was before the call.
C8_InputIsPriorPlusUserItem ==
  pc = "run_turn:202" =>
    LET input == TheValue(frame.input_payload)
        m == frame.user_message
    IN IF ~frame.supplied
         THEN input.kind = "str" /\ input.text = m
         ELSE LET s == TheValue(frame.conversation_items)
              IN /\ input.kind = "list"
                 /\ Len(input.items) = Len(s) + 1
                 /\ \A i \in 1..Len(s) : input.items[i] = s[i]
                 /\ input.items[Len(s) + 1] = [role |-> "user", content |-> m]
                 /\ caller_items = Some(s)

\* turn 2 is under way with "again" and the state exported after turn 1
C8_Witness ==
  /\ pc = "run_turn:202" /\ frame.supplied /\ frame.user_message = Again
  /\ exported # None /\ frame.conversation_items = exported
  /\ Len(TheValue(exported)) >= 3

\* C9: without an explicit opt-in, the allow-list the tool provider is started
\* with holds no tool capable of arbitrary queries.
C9_DefaultDeniesQueryTools ==
  tools_arg = None =>
    \A h \in DOMAIN handles : "query_table" \notin Range(handles[h])

\* C10: with unsafe mode disabled the allowed list is the base list with every
\* name of the deny set (query_table and the tables' query aliases) removed,
\* the remaining names in their order; with unsafe mode enabled it is the
\* base list unchanged.
C10_ToolFilter ==
  allowed_tools # None =>
    LET allowed == TheValue(allowed_tools)
        deny == {"query_table"} \cup
                {a \in ChatToolNames :
                   \E i \in DOMAIN table_aliases :
                     \E j \in DOMAIN table_aliases[i] : table_aliases[i][j] = a}
        kept == {i \in DOMAIN base_tools : base_tools[i] \notin deny}
        \* the position in the base list of the k-th name that is kept
        KthKept(k) == CHOOSE i \in kept : Cardinality({j \in kept : j <= i}) = k
    IN IF allow_query_table
         THEN allowed = base_tools
         ELSE /\ Len(allowed) = Cardinality(kept)
              /\ \A k \in 1..Len(allowed) : allowed[k] = base_tools[KthKept(k)]

\* unsafe mode disabled; query_table and an alias were removed from between
\* names that stay
C10_Witness ==
  /\ allowed_tools # None /\ ~allow_query_table
  /\ base_tools = <<"read_table_head", "query_audit", "read_table_head">>
  /\ table_aliases # <<>>
  /\ TheValue(allowed_tools) = <<"read_table_head", "read_table_head">>

\* C11: after cleanup() has returned the executor holds no handle, no bound
\* agent and no retained result, so that it would export None, and a
\* run_turn() that follows fails with the not-initialized error.
C11_CleanupClearsState ==
  /\ []((pc = "idle" /\ ret.op = "cleanup") =>
          /\ mcp_server = None
          /\ agent_instance = None
          /\ last_result = None
          /\ ConversationItemsForNextTurn = None)
  /\ [][(ret.op = "cleanup" /\ pc = "run_turn:189") =>
          /\ pc' = "idle"
          /\ ret' = Raised("run_turn", 190, MsgNotInitialized, "none")]_vars

\* run_turn() was refused on an executor that had completed a turn and was
\* then cleaned up (its one handle was stopped)
C11_Witness ==
  /\ pc = "idle" /\ ret.op = "run_turn" /\ ret.line = 190
  /\ Len(handles) = 1 /\ mcp_server = None
  /\ delegate_log = <<"returned">>

\* C12: once cleanup() has moved the executor to Closed (here: it has stopped
\* the tool provider of an initialized executor and returned), an initialize()
\* on the same executor starts no tool-provider subprocess and does not make
\* the executor Ready.
C12_ClosedIsTerminal ==
  [][(ret.op = "cleanup" /\ ret.line # 251
        /\ pc \in {"initialize:129", "initialize:159"}) =>
       /\ running' = running
       /\ handles' = handles
       /\ agent_instance' = None]_vars

\* C18: when initialize() has returned without raising, the executor is
\* Ready (a run_turn() would not fail with the not-initialized error).
C18_InitializeReturnsOnlyWhenReady ==
  (pc = "idle" /\ ret.op = "initialize" /\ ret.exc = None) => ~NotInitialized

\* C19: a bound agent configuration implies a held handle, and a retained
\* last-turn result implies a bound agent configuration.
C19_FieldsNested ==
  /\ agent_instance # None => mcp_server # None
  /\ last_result # None => agent_instance # None

\* all three fields are set: a turn has returned on a Ready executor
C19_Witness ==
  pc = "idle" /\ last_result # None /\ agent_instance # None /\ mcp_server # None

\* C13: when a run_turn() was abandoned while the delegate call was in
\* flight, a cleanup() that follows stops the tool provider and releases the
\* handle.
C13_CleanupAfterAbandonedTurn ==
  (/\ pc = "idle" /\ ret.op = "cleanup"
   /\ delegate_log # <<>> /\ delegate_log[Len(delegate_log)] = "abandoned") =>
     (running = {} /\ mcp_server = None)

\* the one provider ever started was stopped by a cleanup() after the turn on
\* it was abandoned
C13_Witness ==
  /\ pc = "idle" /\ ret.op = "cleanup" /\ ret.line = 258
  /\ Len(handles) = 1
  /\ delegate_log = <<"abandoned">>

\* C14: once the tool provider was started, chat() hands control back to its
\* caller (by a quit command, by end of input or an interrupt in the read
\* step, or by an exception raised inside a turn) only with the provider's
\* subprocess stopped.
C14_ChatAlwaysStopsProvider ==
  /\ chat_pc = "done" => chat_server # "running"
  /\ chat_server = "running" => chat_exit = "running"

\* chat() has ended with the exception of a failed second turn, and the
\* provider it had started is stopped
C14_Witness ==
  /\ chat_pc = "done" /\ chat_exit = "raise" /\ chat_server = "stopped"
  /\ chat_log = <<"returned", "raised">>

\* C15: when the delegate call of a turn raises, the shell is back at the read
\* step with the tool provider still running and the conversation state of
\* the earlier turns retained.
C15_ChatContinuesAfterFailedTurn ==
  [][(chat_pc = "chat:154" /\ chat_log'[Len(chat_log')] = "raised") =>
       /\ chat_pc' = "chat:134"
       /\ chat_server' = "running"
       /\ conversation_items' = conversation_items]_vars

\* C16: for every sequence of usage records, each of them and each of their
\* fields possibly absent, the turn returns, and its input_tokens,
\* output_tokens and total_tokens are each the sum of that field over the
\* records, an absent record or field counting as zero; the sums are not
\* negative.
C16_UsageIsFieldwiseSum ==
  (pc = "idle" /\ ret.op = "run_turn" /\ delegate_log = <<"returned">>) =>
     LET rs == TheValue(last_result).raw_responses
         Present(i, f) == rs[i].usage # None /\ TheValue(rs[i].usage)[f] # None
         ValueAt(i, f) == IF Present(i, f) THEN TheValue(TheValue(rs[i].usage)[f]) ELSE 0
         RECURSIVE SumTo(_, _)
         SumTo(i, f) == IF i = 0 THEN 0 ELSE SumTo(i - 1, f) + ValueAt(i, f)
         usage == TheValue(turn_result).token_usage
     IN /\ ret.exc = None
        /\ DOMAIN usage = {"input_tokens", "output_tokens", "total_tokens"}
        /\ \A f \in DOMAIN usage : usage[f] = SumTo(Len(rs), f) /\ usage[f] >= 0

\* the records {10,5,15}, absent, {3,0,3} were summed to {13,5,18}
C16_Witness ==
  /\ pc = "idle" /\ ret = Returned("run_turn", 233)
  /\ TheValue(last_result).raw_responses =
       <<[usage |-> Usage(10, 5, 15)], [usage |-> None], [usage |-> Usage(3, 0, 3)]>>
  /\ TheValue(turn_result).token_usage =
       [input_tokens |-> 13, output_tokens |-> 5, total_tokens |-> 18]

\* C17: for every step log, the turn's tool_usage has exactly the tool names
\* occurring in the log as its keys, maps each to the number of step items
\* carrying that name, and its counts add up to the number of items that
\* carry a name; items without a name are skipped.
C17_ToolTallyCountsNames ==
  (pc = "idle" /\ ret.op = "run_turn" /\ delegate_log = <<"returned">>) =>
     LET items == TheValue(last_result).new_items
         Named == {i \in DOMAIN items :
                     /\ items[i].raw_item # None
                     /\ TheValue(items[i].raw_item).name \notin {None, Some("")}}
         NameAt(i) == TheValue(TheValue(items[i].raw_item).name)
         tally == TheValue(turn_result).tool_usage
         RECURSIVE Total(_)
         Total(names) ==
           IF names = {} THEN 0
           ELSE LET n == CHOOSE x \in names : TRUE
                IN tally[n] + Total(names \ {n})
     IN /\ DOMAIN tally = {NameAt(i) : i \in Named}
        /\ \A n \in DOMAIN tally : tally[n] = Cardinality({i \in Named : NameAt(i) = n})
        /\ Total(DOMAIN tally) = Cardinality(Named)

\* the names X, Y, X and one item without a name were tallied to {X:2, Y:1}
C17_Witness ==
  /\ pc = "idle" /\ ret = Returned("run_turn", 233)
  /\ TheValue(last_result).new_items =
       <<ToolCall("X"), ToolCall("Y"), Message(<<"o", "k">>), ToolCall("X")>>
  /\ TheValue(turn_result).tool_usage = [n \in {"X", "Y"} |-> IF n = "X" THEN 2 ELSE 1]

\* C20: when initialize() calls of two tasks on one executor overlap, one
\* beginning while the other is suspended in the handshake, at most one tool
\* provider is constructed and started, and the call that began second
\* returns through the early return of line 130.
C20_OverlappingInitializeStartsOnce ==
  /\ [](Len(handles) <= 1)
  /\ [][/\ (pc = "initialize:159" /\ pc2 = "initialize:129") =>
             (pc2' = "idle" => ret2' = Returned("initialize", 130))
        /\ (pc2 = "initialize:159" /\ pc = "initialize:129") =>
             (pc' = "idle" => ret' = Returned("initialize", 130))]_vars

\* the second task's initialize() has returned while the first is still
\* suspended in the handshake of the one provider
C20_Witness ==
  /\ pc = "initialize:159" /\ pc2 = "idle"
  /\ ret2 = Returned("initialize", 130)
  /\ Len(handles) = 1 /\ running = {1}

====
